---- MODULE Spec2Model ----
(***************************************************************************)
(* ck2audit: the PDX-script parser (pdx::block, pdx::list, pdx::plexer)    *)
(* as a state machine.  The repository holds two revisions of the parser:  *)
(*   "hpp"  src/core/main.cpp:92-386   (includes pdx.hpp, unique_ptr tree) *)
(*   "h"    src/unnamed/part_001:1-299 (includes pdx.h, raw-pointer tree)  *)
(* The variable rev selects the revision a behaviour runs.                 *)
(*                                                                         *)
(* One step of the machine is one iteration of the loop of plexer::next    *)
(* (one token taken from the scanner or from the saved tokens) followed by *)
(* the code of the caller up to its next call of plexer::next.             *)
(*                                                                         *)
(* Beside the parser (Spec) the module holds the components it relies on,  *)
(* each with its own specification over the same variables:                *)
(*   SpecDecimal  pdx::fp_decimal<D>, its constructor and its printer      *)
(*   SpecDate     pdx::date, its two constructors, operator< and ==        *)
(*   SpecPool     cstr_pool, the string arena                              *)
(*   SpecDecimalWide  the decimal constructor on ten and more digits       *)
(*   SpecLexers   two lexers over the scanner's globals yyin and yylineno  *)
(*   SpecQueue    error_queue and struct error                             *)
(***************************************************************************)
EXTENDS Integers, Sequences, FiniteSets, TLC

VARIABLES
    rev,        \* which revision of the parser runs: "hpp" or "h"
    is_save,    \* parser(p, is_save): the root block is a save-game root
    script,     \* the document when it is a fixed example; <<>>: any document
    stream,     \* the lexemes yylex() has returned so far, in order
    state,      \* plexer::state: "NORMAL", "TOK1", "TOK2"
    tok1,       \* plexer::tok1 (saved_token)
    tok2,       \* plexer::tok2 (saved_token)
    tok,        \* *p_tok: the token last written by plexer::next
    stack,      \* the call stack of block::block / list::list constructors
    nalloc,     \* number of block/list nodes allocated so far
    at,         \* where the last call of next() came from: its position and depth
    outcome,    \* "running", "ok", or the fatal error raised; "idle": no parse
    dec,        \* the fixed-point decimal decoder: literal, position, _m, output
    dt,         \* the date decoder and the two dates under comparison
    pool,       \* cstr_pool: _chunks, _end and the strings handed out
    scan,       \* the scanner's globals (yyin, yylineno) and the lexers reading it
    errq        \* error_queue: _vec, and the diagnostics given to it so far

vars == <<rev, is_save, script, stream, state, tok1, tok2, tok, stack, nalloc, at, outcome,
          dec, dt, pool, scan, errq>>

(***************************************************************************)
(* Bounds of the model                                                     *)
(***************************************************************************)
\* longest document (in lexemes, END not counted) explored exhaustively
MaxTokens == 6

(***************************************************************************)
(* Tokens (token::TYPE_MAP) and the scanner's lexemes                      *)
(***************************************************************************)
TYPE_MAP ==
    <<"END", "INTEGER", "EQ", "OPEN", "CLOSE", "STR", "QSTR", "DATE", "QDATE",
      "COMMENT", "DECIMAL", "FAIL">>

TokenTypes == { TYPE_MAP[i] : i \in 1..Len(TYPE_MAP) }

Tok(type, text) == [type |-> type, text |-> text]

\* what yylex() can return: a token type with yytext (a sequence of characters).
\* QSTR and QDATE lexemes still carry their quote characters.
Lexemes ==
    { Tok("STR", <<"a">>), Tok("STR", <<"b">>),
      Tok("INTEGER", <<"1">>), Tok("INTEGER", <<"2">>),
      Tok("QSTR", <<"\"", "a", "\"">>),
      Tok("DATE", <<"1", ".", "2", ".", "3">>),
      Tok("QDATE", <<"\"", "1", ".", "2", ".", "3", "\"">>),
      Tok("DECIMAL", <<"1", ".", "5">>),
      Tok("EQ", <<"=">>), Tok("OPEN", <<"{">>), Tok("CLOSE", <<"}">>),
      Tok("COMMENT", <<"#">>), Tok("FAIL", <<"?">>) }

\* yylex() returning 0
EOFLexeme == Tok("END", <<>>)

(***************************************************************************)
(* lexer::next: from the scanner's lexeme to the token handed to the parser *)
(***************************************************************************)
\* s without its first and last character (the quote characters)
Unquote(s) == SubSeq(s, 2, Len(s) - 1)

\* s without a trailing '\r'
StripCR(s) == IF Len(s) > 0 /\ s[Len(s)] = "\r" THEN SubSeq(s, 1, Len(s) - 1) ELSE s

lexer_next(lx) ==
    IF lx.type = "END" THEN Tok("END", <<>>)
    ELSE IF lx.type \in {"QSTR", "QDATE"} THEN Tok(lx.type, Unquote(lx.text))
    ELSE Tok(lx.type, StripCR(lx.text))

(***************************************************************************)
(* atoi and the date constructor                                           *)
(***************************************************************************)
DigitChars == <<"0", "1", "2", "3", "4", "5", "6", "7", "8", "9">>

IsDigit(c) == \E i \in 1..10 : DigitChars[i] = c

DigitVal(c) == (CHOOSE i \in 1..10 : DigitChars[i] = c) - 1

\* v narrowed to a signed integer of w bits
Narrow(v, w) == ((v + 2^(w-1)) % 2^w) - 2^(w-1)

RECURSIVE AtoiDigits(_, _, _)
AtoiDigits(s, i, acc) ==
    IF i > Len(s) \/ ~IsDigit(s[i]) THEN acc
    ELSE AtoiDigits(s, i + 1, acc * 10 + DigitVal(s[i]))

\* atoi: optional sign, then the leading digits (the digit strings of the
\* model stay inside the range of int)
atoi(s) ==
    IF Len(s) > 0 /\ s[1] = "-" THEN 0 - AtoiDigits(s, 2, 0)
    ELSE AtoiDigits(s, 1, 0)

\* boost::tokenizer with char_separator(". "): the non-empty fields of s
RECURSIVE Fields(_, _, _, _)
Fields(s, i, cur, acc) ==
    IF i > Len(s) THEN (IF cur = <<>> THEN acc ELSE Append(acc, cur))
    ELSE IF s[i] \in {".", " "}
         THEN Fields(s, i + 1, <<>>, IF cur = <<>> THEN acc ELSE Append(acc, cur))
         ELSE Fields(s, i + 1, Append(cur, s[i]), acc)

\* pdx::date::date(const char*): ok is FALSE when throw_error is called
date_ctor(s) ==
    LET f == Fields(s, 1, <<>>, <<>>) IN
    IF Len(f) # 3 THEN [ok |-> FALSE, d |-> <<0, 0, 0>>]
    ELSE [ok |-> TRUE,
          d |-> <<Narrow(atoi(f[1]), 16), Narrow(atoi(f[2]), 8), Narrow(atoi(f[3]), 8)>>]

(***************************************************************************)
(* The value model: obj, statement                                         *)
(***************************************************************************)
\* address of the static block::EMPTY_BLOCK; heap nodes have addresses 1, 2, ...
EMPTY_BLOCK == -1

Obj(type, s, i, d, vec, ptr) ==
    [type |-> type, s |-> s, i |-> i, d |-> d, vec |-> vec, ptr |-> ptr]

\* obj(): type STRING, data.s = nullptr
NoObj == Obj("STRING", <<>>, 0, <<0, 0, 0>>, <<>>, 0)

StrObj(text) == Obj("STRING", text, 0, <<0, 0, 0>>, <<>>, 0)
IntObj(text) == Obj("INTEGER", <<>>, atoi(text), <<0, 0, 0>>, <<>>, 0)
\* revision "hpp" decodes the date; revision "h" keeps the text
DateObj(text) ==
    IF rev = "hpp" THEN Obj("DATE", <<>>, 0, date_ctor(text).d, <<>>, 0)
    ELSE Obj("DATE", text, 0, <<0, 0, 0>>, <<>>, 0)
\* revision "h" only: a decimal kept as its text
DecimalObj(text) == Obj("DECIMAL", text, 0, <<0, 0, 0>>, <<>>, 0)
BlockObj(vec, ptr) == Obj("BLOCK", <<>>, 0, <<0, 0, 0>>, vec, ptr)
ListObj(vec, ptr) == Obj("LIST", <<>>, 0, <<0, 0, 0>>, vec, ptr)

Stmt(key, val) == [key |-> key, val |-> val]

(***************************************************************************)
(* Example documents (spec section 8), as the scanner delivers them         *)
(***************************************************************************)
LxA == Tok("STR", <<"a">>)
LxB == Tok("STR", <<"b">>)
LxX == Tok("STR", <<"x">>)
Lx1 == Tok("INTEGER", <<"1">>)
Lx2 == Tok("INTEGER", <<"2">>)
Lx3 == Tok("INTEGER", <<"3">>)
LxEq == Tok("EQ", <<"=">>)
LxOpen == Tok("OPEN", <<"{">>)
LxClose == Tok("CLOSE", <<"}">>)
LxComment == Tok("COMMENT", <<"#">>)

DocBlock == <<LxA, LxEq, LxOpen, LxB, LxEq, Lx1, LxClose>>               \* a = { b = 1 }
DocList == <<LxA, LxEq, LxOpen, Lx1, Lx2, Lx3, LxClose>>                 \* a = { 1 2 3 }
DocListOfBlock ==                                                        \* a = { { x = 1 } }
    <<LxA, LxEq, LxOpen, LxOpen, LxX, LxEq, Lx1, LxClose, LxClose>>
DocEmptyThenStmt == <<LxA, LxEq, LxOpen, LxClose, LxB, LxEq, Lx1>>       \* a = { } b = 1
DocNested ==                                                             \* a = { b = { 1 } a = 2 }
    <<LxA, LxEq, LxOpen, LxB, LxEq, LxOpen, Lx1, LxClose, LxA, LxEq, Lx2, LxClose>>
DocUnclosed == <<LxA, LxEq, LxOpen, LxB, LxEq, Lx1>>                     \* a = { b = 1
DocCommented ==                                                          \* a = { # b # = 1 }
    <<LxA, LxEq, LxOpen, LxComment, LxB, LxComment, LxEq, Lx1, LxClose>>

DocDup == <<LxA, LxEq, Lx1, LxA, LxEq, Lx2>>                              \* a = 1 a = 2

DocTwoEmpty == <<LxA, LxEq, LxOpen, LxClose, LxB, LxEq, LxOpen, LxClose>> \* a = { } b = { }

\* sizeof(saved_token::buf)
SavedBufSize == 128

\* a byte that was not part of the text copied
Clobbered == "\\001"

\* words of SavedBufSize - 1 and of SavedBufSize letters
LongestFitting == [i \in 1..(SavedBufSize - 1) |-> "x"]
LongText == [i \in 1..SavedBufSize |-> "x"]

DocFitsKey == <<LxA, LxEq, LxOpen, Tok("STR", LongestFitting), LxEq, Lx1, LxClose>>
DocLongKey == <<LxA, LxEq, LxOpen, Tok("STR", LongText), LxEq, Lx1, LxClose>>
DocLongSecond == <<LxA, LxEq, LxOpen, Lx1, Tok("STR", LongText), LxClose>>

Examples ==
    { DocBlock, DocList, DocListOfBlock, DocEmptyThenStmt, DocNested, DocUnclosed,
      DocCommented, DocDup, DocTwoEmpty, DocFitsKey, DocLongKey, DocLongSecond }

\* what yylex() may return next: the example's next lexeme, or any lexeme
ScannerNext ==
    IF script # <<>>
    THEN (IF Len(stream) < Len(script) THEN {script[Len(stream) + 1]} ELSE {EOFLexeme})
    ELSE (IF Len(stream) < MaxTokens THEN Lexemes \cup {EOFLexeme} ELSE {EOFLexeme})

(***************************************************************************)
(* The constructors' frames                                                *)
(***************************************************************************)
\* saved_token(): token(token::END, &buf[0])
NoSaved == Tok("END", <<>>)

\* no token fetched yet
NoToken == Tok("NONE", <<>>)

Frame(kind, root, pc, ptr) ==
    [kind |-> kind, is_root |-> root, pc |-> pc, key |-> NoObj, vec |-> <<>>,
     double_open |-> FALSE, ptr |-> ptr]

Top == stack[Len(stack)]

Running == outcome = "running" /\ stack # <<>>

SetTop(stk, fr) == [stk EXCEPT ![Len(stk)] = fr]

\* the parser's state after a step
Result(stk, out, na, st, t1, t2) ==
    [stack |-> stk, outcome |-> out, nalloc |-> na, state |-> st, tok1 |-> t1, tok2 |-> t2]

\* throw va_error(...): the constructors unwind and the tree is destroyed
Thrown(err) == Result(<<>>, err, 0, "NORMAL", NoSaved, NoSaved)

\* stmt.key/val complete: the statement is in the block's vec, on to the next statement
CompleteStmt(fr, val) ==
    [fr EXCEPT !.vec = Append(@, Stmt(fr.key, val)), !.key = NoObj, !.pc = "stmt",
               !.double_open = FALSE]

\* a constructor returns: the node goes to the caller that asked for it
Return(b) ==
    LET fr == b.stack[Len(b.stack)]
        o == IF fr.kind = "block" THEN BlockObj(fr.vec, fr.ptr) ELSE ListObj(fr.vec, fr.ptr)
    IN  IF Len(b.stack) = 1
        THEN [b EXCEPT !.stack = SetTop(b.stack, [fr EXCEPT !.pc = "done"]), !.outcome = "ok"]
        ELSE LET rest == SubSeq(b.stack, 1, Len(b.stack) - 1)
                 par == rest[Len(rest)]
             IN  IF par.kind = "block"
                 THEN [b EXCEPT !.stack = SetTop(rest, CompleteStmt(par, o))]
                 ELSE [b EXCEPT !.stack =
                          SetTop(rest, [par EXCEPT !.vec = Append(@, o), !.pc = "elem"])]

\* new block(lex) / make_unique<block>(lex): the callee's frame
Call(b, kind) ==
    [b EXCEPT !.stack = Append(SetTop(b.stack, [b.stack[Len(b.stack)] EXCEPT !.pc = "sub"]),
                               Frame(kind, FALSE, IF kind = "block" THEN "stmt" ELSE "elem",
                                     b.nalloc + 1)),
              !.nalloc = b.nalloc + 1]

(***************************************************************************)
(* pdx::block::block, pdx::list::list: the code after each call of next()   *)
(* b is the parser after the fetch, t the token the fetch returned.         *)
(***************************************************************************)
\* mutant: next(&tok, true) in every block
eof_ok_AnyBlock(fr) == fr.kind = "block" /\ fr.pc = "stmt"

\* block::block: lex.next(&tok, is_root)
eof_ok(fr) == fr.kind = "block" /\ fr.pc = "stmt" /\ fr.is_root

\* mutant: the save-game exemption is missing
CloseIsUnmatched_AnyRoot(fr) == fr.is_root

\* block::block: if (is_root && !is_save) throw "Unmatched closing brace"
CloseIsUnmatched(fr) == fr.is_root /\ ~is_save

\* mutant: a quoted string is taken as a key too
KeyTypes_WithQuoted == {"STR", "QSTR", "DATE", "INTEGER"}

\* block::block: the token types a key is built from
KeyTypes == {"STR", "DATE", "INTEGER"}

\* mutant: the header is asked to be a quoted string
HeaderType_Quoted == "QSTR"

\* block::block: the header token type asked of next_expected
HeaderType == "STR"

\* mutant: the double-open case is not looked at
WantsList_NoDoubleOpen(t2, double_open) == t2.type # "EQ"

\* block::block: if (tok.type != token::EQ || double_open) list else block
WantsList(t2, double_open) == t2.type # "EQ" \/ double_open

\* block::block: the token types of a scalar value
ValueTypes == IF rev = "hpp" THEN {"STR", "QSTR", "DATE", "QDATE", "INTEGER"}
              ELSE {"STR", "QSTR", "DATE", "QDATE", "INTEGER", "DECIMAL"}

\* list::list: the token types of a scalar element
ElemTypes == IF rev = "hpp" THEN {"STR", "QSTR", "INTEGER"}
             ELSE {"STR", "QSTR", "INTEGER", "DECIMAL"}

\* the obj built from a scalar token
ScalarObj(t) ==
    IF t.type \in {"STR", "QSTR"} THEN StrObj(t.text)
    ELSE IF t.type \in {"DATE", "QDATE"} THEN DateObj(t.text)
    ELSE IF t.type = "INTEGER" THEN IntObj(t.text)
    ELSE DecimalObj(t.text)

\* date{ tok.text } throws in revision "hpp" when the text has not three fields
DateThrows(t) == rev = "hpp" /\ t.type \in {"DATE", "QDATE"} /\ ~date_ctor(t.text).ok

\* lex.next_expected(&t, token::STR): the save-game header
AfterHeader(b, t) ==
    LET fr == b.stack[Len(b.stack)] IN
    IF t.type # HeaderType THEN Thrown("ExpectedToken")
    ELSE [b EXCEPT !.stack = SetTop(b.stack, [fr EXCEPT !.pc = "stmt"])]

\* lex.next(&tok, is_root) and the key
AfterStmt(b, t) ==
    LET fr == b.stack[Len(b.stack)] IN
    IF t.type = "END" THEN Return(b)
    ELSE IF t.type = "CLOSE"
         THEN (IF CloseIsUnmatched(fr) THEN Thrown("UnmatchedClosingBrace") ELSE Return(b))
    ELSE IF t.type \notin KeyTypes THEN Thrown("UnexpectedToken")
    ELSE IF DateThrows(t) THEN Thrown("MalformedDate")
    ELSE [b EXCEPT !.stack = SetTop(b.stack, [fr EXCEPT !.key = ScalarObj(t), !.pc = "eq"])]

\* lex.next_expected(&tok, token::EQ)
AfterEq(b, t) ==
    LET fr == b.stack[Len(b.stack)] IN
    IF t.type # "EQ" THEN Thrown("ExpectedToken")
    ELSE [b EXCEPT !.stack = SetTop(b.stack, [fr EXCEPT !.pc = "value"])]

\* lex.next(&tok) and the value
AfterValue(b, t) ==
    LET fr == b.stack[Len(b.stack)] IN
    IF t.type = "OPEN" THEN [b EXCEPT !.stack = SetTop(b.stack, [fr EXCEPT !.pc = "open"])]
    ELSE IF t.type \notin ValueTypes THEN Thrown("UnexpectedToken")
    ELSE IF DateThrows(t) THEN Thrown("MalformedDate")
    ELSE [b EXCEPT !.stack = SetTop(b.stack, CompleteStmt(fr, ScalarObj(t)))]

\* the statement `key = { }`: revision "hpp" builds the empty block and
\* continues the loop before vec.emplace_back(key, val); revision "h" has put
\* the statement in vec already and points its value to EMPTY_BLOCK
EmptyBlock(b, fr) ==
    IF rev = "hpp"
    THEN [b EXCEPT !.stack = SetTop(b.stack, [fr EXCEPT !.key = NoObj, !.pc = "stmt"]),
                   !.nalloc = b.nalloc + 1]
    ELSE [b EXCEPT !.stack = SetTop(b.stack, CompleteStmt(fr, BlockObj(<<>>, EMPTY_BLOCK)))]

\* strcpy(saved.text, p_tok->text) stays inside saved_token::buf
Fits(text) == Len(text) + 1 <= SavedBufSize

\* strcpy past the end of buf is undefined: the build stops there ("abort"),
\* or goes on with the text intact behind buf ("intact"), or goes on with the
\* bytes behind buf rewritten by the member that lives there ("clobber")
CopyOutcomes(pc, t) ==
    IF pc \in {"open", "look"} /\ ~Fits(t.text) THEN {"abort", "intact", "clobber"}
    ELSE {"fits"}

\* the text read back from saved.text after the copy
strcpy_buf(text, ub) ==
    IF ub = "clobber" THEN SubSeq(text, 1, SavedBufSize) \o <<Clobbered>> ELSE text

\* the process stopped inside strcpy
Aborted == Result(<<>>, "BufferOverflow", 0, "NORMAL", NoSaved, NoSaved)

\* lex.next(&tok) after OPEN, then save_and_lookahead up to its call of next()
AfterOpen(b, t, ub) ==
    LET fr == b.stack[Len(b.stack)] IN
    IF t.type = "CLOSE" THEN EmptyBlock(b, fr)
    ELSE IF ub = "abort" THEN Aborted
    ELSE [b EXCEPT !.stack = SetTop(b.stack, [fr EXCEPT !.double_open = (t.type = "OPEN"),
                                                         !.pc = "look"]),
                   !.tok1 = Tok(t.type, strcpy_buf(t.text, ub))]

\* save_and_lookahead after its call of next(), then the choice of list or block
AfterLookahead(b, t, ub) ==
    LET fr == b.stack[Len(b.stack)]
        saved == [b EXCEPT !.tok2 = Tok(t.type, strcpy_buf(t.text, ub)), !.state = "TOK1"]
    IN  IF ub = "abort" THEN Aborted
        ELSE IF WantsList(t, fr.double_open) THEN Call(saved, "list")
        ELSE Call(saved, "block")

\* list::list: lex.next(&t) and the element
AfterElem(b, t) ==
    LET fr == b.stack[Len(b.stack)] IN
    IF t.type \in ElemTypes
    THEN [b EXCEPT !.stack = SetTop(b.stack, [fr EXCEPT !.vec = Append(@, ScalarObj(t))])]
    ELSE IF t.type = "OPEN" THEN Call(b, "block")
    ELSE IF t.type # "CLOSE" THEN Thrown("UnexpectedToken")
    ELSE Return(b)

(***************************************************************************)
(* pdx::plexer::next: one iteration of its loop                            *)
(***************************************************************************)
\* the token of this iteration: from the scanner, or a saved token
Fetched(lx) ==
    IF state = "NORMAL" THEN lexer_next(lx)
    ELSE IF state = "TOK1" THEN Tok(tok1.type, tok1.text)
    ELSE Tok(tok2.type, tok2.text)

\* mutant: the second saved token is dropped
StateAfterFetch_OneToken ==
    IF state = "NORMAL" THEN "NORMAL" ELSE "NORMAL"

StateAfterFetch ==
    IF state = "NORMAL" THEN "NORMAL" ELSE IF state = "TOK1" THEN "TOK2" ELSE "NORMAL"

\* the lexemes this iteration may take from the scanner (none when replaying)
Draws == IF state = "NORMAL" THEN ScannerNext ELSE {EOFLexeme}

\* plexer::next: if (p_tok->type == token::END) { if (!eof_ok) throw ... }
UnexpectedEOF(t, fr) == t.type = "END" /\ ~eof_ok(fr)

\* mutant: the check for FAIL is missing
Unrecognized_Never(t) == FALSE

\* plexer::next: if (p_tok->type == token::FAIL) throw ...
Unrecognized(t) == t.type = "FAIL"

\* mutant: comments are returned like any other token
Skipped_Never(t) == FALSE

\* plexer::next: if (p_tok->type == token::COMMENT) continue
Skipped(t) == t.type = "COMMENT"

\* the caller's code that follows the call of next(), by the caller's position
After(b, t, ub) ==
    LET pc == b.stack[Len(b.stack)].pc IN
    IF pc = "header" THEN AfterHeader(b, t)
    ELSE IF pc = "stmt" THEN AfterStmt(b, t)
    ELSE IF pc = "eq" THEN AfterEq(b, t)
    ELSE IF pc = "value" THEN AfterValue(b, t)
    ELSE IF pc = "open" THEN AfterOpen(b, t, ub)
    ELSE IF pc = "look" THEN AfterLookahead(b, t, ub)
    ELSE AfterElem(b, t)

\* next(p_tok, eof_ok), one iteration, and the caller's code that follows
Request ==
    \E lx \in Draws : \E ub \in CopyOutcomes(Top.pc, Fetched(lx)) :
      LET t == Fetched(lx)
          b == Result(stack, "running", nalloc, StateAfterFetch, tok1, tok2)
          r == IF UnexpectedEOF(t, Top) THEN Thrown("UnexpectedEOF")
               ELSE IF t.type = "END" THEN After(b, t, ub)
               ELSE IF Unrecognized(t) THEN Thrown("UnrecognizedToken")
               ELSE IF Skipped(t) THEN b
               ELSE After(b, t, ub)
      IN  /\ tok' = t
          /\ at' = [pc |-> Top.pc, depth |-> Len(stack)]
          /\ stream' = IF r.outcome \notin {"running", "ok"} THEN <<>>
                       ELSE IF state = "NORMAL" THEN Append(stream, lx) ELSE stream
          /\ stack' = r.stack
          /\ outcome' = r.outcome
          /\ nalloc' = r.nalloc
          /\ state' = r.state
          /\ tok1' = r.tok1
          /\ tok2' = r.tok2
          /\ UNCHANGED <<rev, is_save, script, dec, dt, pool, scan, errq>>

\* the position of the running constructor
At(pc) == Running /\ Top.pc = pc

SkipHeader ==
    /\ At("header")
    /\ Request

StmtKey ==
    /\ At("stmt")
    /\ Request

ExpectEq ==
    /\ At("eq")
    /\ Request

Value ==
    /\ At("value")
    /\ Request

OpenValue ==
    /\ At("open")
    /\ Request

Lookahead ==
    /\ At("look")
    /\ Request

ListElem ==
    /\ At("elem")
    /\ Request

(***************************************************************************)
(* The components beside the parser, when they are not in use              *)
(***************************************************************************)
\* no decimal literal is being decoded
NoDecimal == [D |-> 3, src |-> <<>>, pc |-> "idle", m |-> 0, errors |-> <<>>, out |-> <<>>]

\* what a date constructor has done: kind is "date" (it returned the date d),
\* "malformed" or "bounds" (the va_error it threw, with the field's name and
\* value), "segfault" or "wild_read" (it wrote through a null pointer)
DateResult(kind, d, field, val) == [kind |-> kind, d |-> d, field |-> field, val |-> val]

NoDateResult == DateResult("none", <<0, 0, 0>>, "", 0)

\* no date is being decoded or compared
NoDate == [impl |-> "none", src |-> <<>>, pc |-> "idle", res |-> NoDateResult,
           a |-> <<0, 0, 0>>, b |-> <<0, 0, 0>>, lt |-> FALSE, gt |-> FALSE, eq |-> FALSE]

\* no lexer exists: the scanner has never been given a file
NoScanner == [rev |-> "none", yyin |-> 0, yylineno |-> 0, files |-> <<>>, pos |-> <<>>,
              lexers |-> <<>>]

\* no error queue exists
NoQueue == [live |-> FALSE, vec |-> <<>>, given |-> <<>>]

\* no string pool exists
NoPool == [pc |-> "idle", chunks |-> <<>>, end |-> 0, handed |-> <<>>,
           calls |-> 0, arg |-> <<>>, last |-> "none"]

Init ==
    /\ rev \in {"hpp", "h"}
    /\ is_save \in BOOLEAN
    /\ script \in {<<>>} \cup Examples
    /\ stream = <<>>
    /\ state = "NORMAL"
    /\ tok1 = NoSaved
    /\ tok2 = NoSaved
    /\ tok = NoToken
    /\ stack = <<Frame("block", TRUE, IF is_save THEN "header" ELSE "stmt", 1)>>
    /\ nalloc = 1
    /\ at = [pc |-> "none", depth |-> 0]
    /\ outcome = "running"
    /\ dec = NoDecimal
    /\ dt = NoDate
    /\ pool = NoPool
    /\ scan = NoScanner
    /\ errq = NoQueue

Next ==
    \/ SkipHeader
    \/ StmtKey
    \/ ExpectEq
    \/ Value
    \/ OpenValue
    \/ Lookahead
    \/ ListElem

Spec == Init /\ [][Next]_vars

\* no parser has been constructed
NoParser ==
    /\ rev = "hpp"
    /\ is_save = FALSE
    /\ script = <<>>
    /\ stream = <<>>
    /\ state = "NORMAL"
    /\ tok1 = NoSaved
    /\ tok2 = NoSaved
    /\ tok = NoToken
    /\ stack = <<>>
    /\ nalloc = 0
    /\ at = [pc |-> "none", depth |-> 0]
    /\ outcome = "idle"

parserVars == <<rev, is_save, script, stream, state, tok1, tok2, tok, stack, nalloc, at, outcome>>

(***************************************************************************)
(* pdx::fp_decimal<D>: the decoder of decimal literals and its printer     *)
(***************************************************************************)
\* longest integral part (in digits) of the literals explored exhaustively;
\* with the examples the integral parts have at most 9 digits, where the
\* `int power` of the decoder's first loop is exact
MaxIntDigits == 2

\* longest fractional part (in digits) of the literals explored exhaustively
MaxFracDigits == 4

INT32_MAX == 2147483647
INT32_MIN == (-INT32_MAX) - 1

\* C++ % and / on integers (truncation toward zero), for b > 0
CRem(a, b) == LET r == a % b IN IF a < 0 /\ r # 0 THEN r - b ELSE r
CDiv(a, b) == (a - CRem(a, b)) \div b

\* abs
abs(n) == IF n < 0 THEN -n ELSE n

RECURSIVE exp10(_)
exp10(N) == IF N = 0 THEN 1 ELSE 10 * exp10(N - 1)

\* the template arguments D the decoder is instantiated with
Precisions == {1, 2, 3}

scale(D) == exp10(D)

integral_max(D) == CDiv(INT32_MAX - scale(D) - CRem(INT32_MAX, scale(D)), scale(D))
integral_min(D) == CDiv(INT32_MIN + scale(D) - CRem(INT32_MIN, scale(D)), scale(D))

\* mutant: the table starts at 10^D
fractional_digit_power_OffByOne(D, I) == exp10(D - I)
\* fractional_digit_powers::data[I]
fractional_digit_power(D, I) == exp10(D - I - 1)

\* strchr(s + from - 1, c): the position of the first c at or after from, 0: NULL
RECURSIVE strchr(_, _, _)
strchr(s, c, from) ==
    IF from > Len(s) THEN 0
    ELSE IF s[from] = c THEN from
    ELSE strchr(s, c, from + 1)

\* int * int for a factor k of 0..10: the product kept to 32 bits, and
\* whether the exact product left the range of int (computed on 16-bit
\* halves, x = 65536 * (x \div 65536) + x % 65536)
MulInt(x, k) ==
    LET lo == (x % 65536) * k
        hi == ((x \div 65536) * k) + (lo \div 65536)
    IN  [overflow |-> hi < -32768 \/ hi > 32767,
         val |-> ((((hi + 32768) % 65536) - 32768) * 65536) + (lo % 65536)]

\* an int64_t as q * 65536 + r, 0 <= r < 65536
Int64(n) == [q |-> n \div 65536, r |-> n % 65536]

\* int64_t += int
AddInt64(i, t) ==
    LET r == i.r + (t % 65536) IN
    [q |-> i.q + (t \div 65536) + (r \div 65536), r |-> r % 65536]

\* int64_t < int64_t
LessInt64(a, b) == a.q < b.q \/ (a.q = b.q /\ a.r < b.r)

\* for (p = s_radix_pt - 1; p >= s_i; --p) { i += power * d; power *= 10; }
\* with `int power` and `int d`: returns i and whether a product overflowed
RECURSIVE IntegralLoop(_, _, _, _, _, _)
IntegralLoop(s, p, s_i, power, i, overflowed) ==
    IF p < s_i THEN [i |-> i, overflowed |-> overflowed]
    ELSE LET term == MulInt(power, DigitVal(s[p]))
             next == MulInt(power, 10)
         IN  IntegralLoop(s, p - 1, s_i, next.val, AddInt64(i, term.val),
                          overflowed \/ term.overflow \/ next.overflow)

\* for (i = 0; i < D; ++i) { c = *p; if (!c) break; f += data[i] * c; ++p; }
RECURSIVE FractionalLoop(_, _, _, _, _)
FractionalLoop(s, p, D, i, f) ==
    IF i >= D \/ p > Len(s) THEN f
    ELSE FractionalLoop(s, p + 1, D, i + 1, f + fractional_digit_power(D, i) * DigitVal(s[p]))

\* fp_decimal<D>::fp_decimal(src, p_parser): thrown is TRUE when
\* throw_range_error raises its va_error; no diagnostic is queued anywhere;
\* overflowed is TRUE when an int product of the first loop overflowed, and
\* the rest is then what the wrapped products give
fp_decimal_ctor(src, D) ==
    LET is_negative == src[1] = "-"
        s_i == IF is_negative THEN 2 ELSE 1
        s_radix_pt == strchr(src, ".", 1)
        s_f == s_radix_pt + 1
        loop == IntegralLoop(src, s_radix_pt - 1, s_i, 1, Int64(0), FALSE)
        i == (loop.i.q * 65536) + loop.i.r
        f == FractionalLoop(src, s_f, D, 0, 0)
    IN  IF LessInt64(loop.i, Int64(integral_min(D))) \/ LessInt64(Int64(integral_max(D)), loop.i)
        THEN [thrown |-> TRUE, m |-> 0, queued |-> <<>>, overflowed |-> loop.overflowed]
        ELSE [thrown |-> FALSE,
              m |-> IF is_negative THEN i * (-scale(D)) - f ELSE i * scale(D) + f,
              queued |-> <<>>, overflowed |-> loop.overflowed]

\* signed overflow of int is undefined: the build wraps the product, or it
\* traps on it
OverflowOutcomes(r) == IF r.overflowed THEN {"wrap", "trap"} ELSE {"exact"}

\* fp_decimal::integral, fp_decimal::fractional
integral(m, D) == CDiv(m, scale(D))
fractional(m, D) == CRem(m, scale(D))

\* os << n for a non-negative int
RECURSIVE DigitsOf(_)
DigitsOf(n) ==
    IF n < 10 THEN <<DigitChars[n + 1]>>
    ELSE Append(DigitsOf(n \div 10), DigitChars[(n % 10) + 1])

\* os << n for an int
IntText(n) == IF n < 0 THEN <<"-">> \o DigitsOf(-n) ELSE DigitsOf(n)

\* std::setfill('0') << std::setw(w)
RECURSIVE setw(_, _)
setw(t, w) == IF Len(t) >= w THEN t ELSE setw(<<"0">> \o t, w)

\* operator<<(std::ostream&, fp_decimal<D>)
print_fp_decimal(m, D) ==
    LET f == abs(fractional(m, D)) IN
    IntText(integral(m, D)) \o (IF f # 0 THEN <<".">> \o setw(DigitsOf(f), D) ELSE <<>>)

\* the digits the exhaustive literals are written with
DecDigits == {"0", "1", "9"}

\* the digit strings of length lo..hi
DigitStrings(lo, hi) == UNION { [1..k -> DecDigits] : k \in lo..hi }

\* spelled-out literals: the documented examples and the integral bounds
DecimalExamples ==
    { <<"1", "2", "3", "4", "5", ".", "1">>,
      <<"1", "2", "3", ".", "1", "2", "3", "4", "5">>,
      <<"-", "1", ".", "5">>,
      <<"-", "0", ".", "5">>,
      <<"2", "1", "4", "7", "4", "8", "2", ".", "9", "9", "9">>,
      <<"-", "2", "1", "4", "7", "4", "8", "2", ".", "9", "9", "9">>,
      <<"2", "1", "4", "7", "4", "8", "3", ".", "0">>,
      <<"-", "2", "1", "4", "7", "4", "8", "3", ".", "0">>,
      <<"2", "1", "4", "7", "4", "8", "3", "6", "3", ".", "9">>,
      <<"2", "1", "4", "7", "4", "8", "3", "6", "4", ".", "0">>,
      <<"9", "9", "9", "9", "9", "9", "9", "9", "9", ".", "9">> }

\* the DECIMAL lexemes -?[0-9]+\.[0-9]* handed to the decoder
DecimalTexts ==
    { sign \o ip \o <<".">> \o fp :
        sign \in {<<>>, <<"-">>},
        ip \in DigitStrings(1, MaxIntDigits),
        fp \in DigitStrings(0, MaxFracDigits) } \cup DecimalExamples

\* fp_decimal<D> x(src)
ConstructDecimal ==
    /\ dec.pc = "src"
    /\ LET r == fp_decimal_ctor(dec.src, dec.D) IN
       \E ub \in OverflowOutcomes(r) :
          dec' = IF ub = "trap" THEN [dec EXCEPT !.pc = "aborted"]
                 ELSE [dec EXCEPT !.pc = IF r.thrown THEN "thrown" ELSE "built",
                                  !.m = r.m,
                                  !.errors = dec.errors \o r.queued]
    /\ UNCHANGED <<parserVars, dt, pool, scan, errq>>

\* os << x
PrintDecimal ==
    /\ dec.pc = "built"
    /\ dec' = [dec EXCEPT !.pc = "printed", !.out = print_fp_decimal(dec.m, dec.D)]
    /\ UNCHANGED <<parserVars, dt, pool, scan, errq>>

InitDecimal ==
    /\ NoParser
    /\ dec \in { [D |-> D, src |-> s, pc |-> "src", m |-> 0, errors |-> <<>>, out |-> <<>>] :
                   D \in Precisions, s \in DecimalTexts }
    /\ dt = NoDate
    /\ pool = NoPool
    /\ scan = NoScanner
    /\ errq = NoQueue

NextDecimal ==
    \/ ConstructDecimal
    \/ PrintDecimal

SpecDecimal == InitDecimal /\ [][NextDecimal]_vars

(***************************************************************************)
(* The same decoder on literals of ten and more integral digits, where the *)
(* `int power` of its first loop passes 10^9                               *)
(***************************************************************************)
\* most digits in front of the nine low digits of a wide literal
MaxWideDigits == 1

WideDigits == {"0", "2", "4", "8", "9"}

\* the nine low digits: of 2^32, of 2^31, of 2^33, all zero, all nine
LowDigits ==
    { <<"2", "9", "4", "9", "6", "7", "2", "9", "6">>,
      <<"1", "4", "7", "4", "8", "3", "6", "4", "8">>,
      <<"5", "8", "9", "9", "3", "4", "5", "9", "2">>,
      <<"0", "0", "0", "0", "0", "0", "0", "0", "0">>,
      <<"0", "0", "0", "0", "0", "0", "0", "0", "1">>,
      <<"9", "9", "9", "9", "9", "9", "9", "9", "9">> }

WideTexts ==
    { sign \o hi \o lo \o <<".">> \o fp :
        sign \in {<<>>, <<"-">>},
        hi \in UNION { [1..k -> WideDigits] : k \in 1..MaxWideDigits },
        lo \in LowDigits,
        fp \in {<<"0">>, <<"5">>} }

InitDecimalWide ==
    /\ NoParser
    /\ dec \in { [D |-> D, src |-> s, pc |-> "src", m |-> 0, errors |-> <<>>, out |-> <<>>] :
                   D \in Precisions, s \in WideTexts }
    /\ dt = NoDate
    /\ pool = NoPool
    /\ scan = NoScanner
    /\ errq = NoQueue

SpecDecimalWide == InitDecimalWide /\ [][NextDecimal]_vars

(***************************************************************************)
(* pdx::date: the two revisions of the date type                           *)
(*   "pdx.hpp"   src/core/pdx.hpp:26-58 with src/core/main.cpp:333-366     *)
(*   "date.hpp"  src/core/date.hpp with src/core/date.cpp                  *)
(***************************************************************************)
\* most '.'-separated fields of the date texts explored
MaxFields == 4

\* largest field value of the dates compared exhaustively
MaxField == 2

DateImpls == {"pdx.hpp", "date.hpp"}

\* the digit strings the fields of the date texts are drawn from
FieldTexts ==
    { <<"0">>, <<"1">>, <<"2", "5", "5">>, <<"2", "5", "6">>,
      <<"6", "5", "5", "3", "5">>, <<"6", "5", "5", "3", "6">>,
      <<"7", "0", "0", "0", "0">> }

\* the texts of 1..n fields joined by '.'
RECURSIVE JoinedFields(_)
JoinedFields(n) ==
    IF n = 1 THEN FieldTexts
    ELSE { t \o <<".">> \o f : t \in JoinedFields(n - 1), f \in FieldTexts }

DateTexts == UNION { JoinedFields(n) : n \in 1..MaxFields }

\* date.cpp: name[3] and max[3]
date_name == <<"year", "month", "day">>
date_max == <<65535, 255, 255>>

\* date::date(char* src, const parser*) of date.cpp: the results it can have.
\* When strchr finds no '.', `*end = '\0'` writes through a null pointer and
\* part[i + 1] is the address 1: undefined behaviour.
date_cpp_ctor(src) ==
    LET end1 == strchr(src, ".", 1)
        end2 == IF end1 = 0 THEN 0 ELSE strchr(src, ".", end1 + 1)
        part == <<SubSeq(src, 1, end1 - 1),
                  SubSeq(src, end1 + 1, end2 - 1),
                  SubSeq(src, end2 + 1, Len(src))>>
        num == [i \in 1..3 |-> atoi(part[i])]
        bad == { i \in 1..3 : num[i] > date_max[i] }
        first == CHOOSE i \in bad : \A j \in bad : i <= j
    IN  IF end1 = 0 \/ end2 = 0
        THEN { DateResult("segfault", <<0, 0, 0>>, "", 0),
               DateResult("wild_read", <<0, 0, 0>>, "", 0) }
        ELSE IF bad # {}
        THEN { DateResult("bounds", <<0, 0, 0>>, date_name[first], num[first]) }
        ELSE { DateResult("date", <<num[1], num[2], num[3]>>, "", 0) }

\* pdx::date::date(const char*, plexer*) of main.cpp: the results it can have
date_hpp_ctor(src) ==
    LET r == date_ctor(src) IN
    IF r.ok THEN { DateResult("date", r.d, "", 0) }
    ELSE { DateResult("malformed", <<0, 0, 0>>, "", 0) }

\* date::operator< (the same statements in both revisions)
date_less(a, e) ==
    IF a[1] < e[1] THEN TRUE
    ELSE IF e[1] < a[1] THEN FALSE
    ELSE IF a[2] < e[2] THEN TRUE
    ELSE IF e[2] < a[1] THEN FALSE
    ELSE IF a[3] < e[3] THEN TRUE
    ELSE IF e[3] < a[3] THEN FALSE
    ELSE FALSE

\* date::operator== (the same expression in both revisions)
date_equal(a, e) == a[1] = e[1] /\ a[2] = e[1] /\ a[3] = e[3]

\* the field values of the dates compared: int16_t/int8_t fields can be
\* negative, uint16_t/uint8_t fields cannot
DateFieldValues(impl) == IF impl = "pdx.hpp" THEN (-1)..MaxField ELSE 0..MaxField

DateExamples == { <<1066, 5, 1>>, <<1066, 5, 2>>, <<1066, 9, 15>> }

DateOperands(impl) ==
    { <<y, m, d>> : y \in DateFieldValues(impl), m \in DateFieldValues(impl),
                    d \in DateFieldValues(impl) } \cup DateExamples

\* date x(src)
DecodeDate ==
    /\ dt.pc = "src"
    /\ \E r \in (IF dt.impl = "pdx.hpp" THEN date_hpp_ctor(dt.src) ELSE date_cpp_ctor(dt.src)) :
         dt' = [dt EXCEPT !.pc = "decoded", !.res = r]
    /\ UNCHANGED <<parserVars, dec, pool, scan, errq>>

\* a < b, b < a and a == b
CompareDates ==
    /\ dt.pc = "operands"
    /\ dt' = [dt EXCEPT !.pc = "compared",
                        !.lt = date_less(dt.a, dt.b),
                        !.gt = date_less(dt.b, dt.a),
                        !.eq = date_equal(dt.a, dt.b)]
    /\ UNCHANGED <<parserVars, dec, pool, scan, errq>>

InitDate ==
    /\ NoParser
    /\ dec = NoDecimal
    /\ pool = NoPool
    /\ scan = NoScanner
    /\ errq = NoQueue
    /\ \E impl \in DateImpls :
         \/ \E s \in DateTexts : dt = [NoDate EXCEPT !.impl = impl, !.pc = "src", !.src = s]
         \/ \E a \in DateOperands(impl), b \in DateOperands(impl) :
              dt = [NoDate EXCEPT !.impl = impl, !.pc = "operands", !.a = a, !.b = b]

NextDate ==
    \/ DecodeDate
    \/ CompareDates

SpecDate == InitDate /\ [][NextDate]_vars

(***************************************************************************)
(* cstr_pool<_MAX_STRLEN>: the string arena                                *)
(***************************************************************************)
\* the template argument _MAX_STRLEN the pool is instantiated with (511 by
\* default); a chunk holds MAX_SZ = MAX_STRLEN + 1 bytes
MAX_STRLEN == 3

\* most calls of copy_c_str in a behaviour
MaxInterns == 4

MAX_SZ == MAX_STRLEN + 1

\* the terminating '\0'
NUL == "NUL"

\* chunk(): data[MAX_SZ], value-initialized by emplace_front()
NewChunk == [k \in 0..(MAX_SZ - 1) |-> NUL]

\* the strings handed to copy_c_str: n times the same character
PoolTexts ==
    { [k \in 1..n |-> c] : n \in 0..(MAX_STRLEN + 2), c \in {"a", "b"} }

\* cstr_pool(): no chunk, _end = MAX_STRLEN
NewPool == [pc |-> "live", chunks |-> <<>>, end |-> MAX_STRLEN, handed |-> <<>>,
            calls |-> 0, arg |-> <<>>, last |-> "none"]

\* mutant: a text of MAX_STRLEN characters is refused
TooLong_OffByOne(len) == len >= MAX_STRLEN
\* if (len > MAX_STRLEN) throw
TooLong(len) == len > MAX_STRLEN

\* mutant: the chunk is taken to hold one byte more than it does
NeedsFreshChunk_Late(new_end) == new_end > MAX_SZ + 1
\* if (new_end > MAX_STRLEN): use a fresh chunk
NeedsFreshChunk(new_end) == new_end > MAX_STRLEN

\* strcpy(data + off, src): the bytes of src and a '\0', written from off on
\* (bytes past the end of data fall outside the chunk)
strcpy(data, off, src) ==
    [k \in 0..(MAX_SZ - 1) |->
        IF k < off \/ k > off + Len(src) THEN data[k]
        ELSE IF k = off + Len(src) THEN NUL
        ELSE src[k - off + 1]]

\* the C string that starts at data + off, as far as it lies inside the chunk
RECURSIVE c_str(_, _)
c_str(data, off) ==
    IF off > MAX_SZ - 1 THEN <<"?">>
    ELSE IF data[off] = NUL THEN <<>>
    ELSE <<data[off]>> \o c_str(data, off + 1)

\* cstr_pool::copy_c_str(src): the pool after the call.  The chunks are kept
\* in the order of their creation: _chunks.front() is the last of them, and a
\* chunk never moves (std::forward_list).  last is "thrown" (runtime_error),
\* "ok" (dst returned), "no_chunk" (front() of an empty list) or "overrun"
\* (strcpy wrote past the end of data).
copy_c_str(p, src) ==
    LET len == Len(src)
        fresh == NeedsFreshChunk(p.end + len + 1)
        chunks1 == IF fresh THEN Append(p.chunks, NewChunk) ELSE p.chunks
        end1 == IF fresh THEN 0 ELSE p.end
        new_end == IF fresh THEN len + 1 ELSE p.end + len + 1
        front == Len(chunks1)
        called == [p EXCEPT !.calls = p.calls + 1, !.arg = src]
    IN  IF TooLong(len) THEN [called EXCEPT !.last = "thrown"]
        ELSE IF front = 0 THEN [called EXCEPT !.last = "no_chunk"]
        ELSE [called EXCEPT
                !.chunks = [chunks1 EXCEPT ![front] = strcpy(chunks1[front], end1, src)],
                !.end = new_end,
                !.handed = Append(p.handed, [chunk |-> front, off |-> end1, text |-> src]),
                !.last = IF end1 + len > MAX_SZ - 1 THEN "overrun" ELSE "ok"]

\* pool.copy_c_str(src)
Intern ==
    /\ pool.pc = "live"
    /\ pool.calls < MaxInterns
    /\ pool.last \in {"none", "ok", "thrown"}
    /\ \E src \in PoolTexts : pool' = copy_c_str(pool, src)
    /\ UNCHANGED <<parserVars, dec, dt, scan, errq>>

InitPool ==
    /\ NoParser
    /\ dec = NoDecimal
    /\ dt = NoDate
    /\ pool = NewPool
    /\ scan = NoScanner
    /\ errq = NoQueue

NextPool == Intern

SpecPool == InitPool /\ [][NextPool]_vars

(***************************************************************************)
(* Two lexers over the one scanner                                         *)
(*                                                                         *)
(* lexer::lexer and lexer::next of src/core/lexer.cpp ("lexer.cpp") and   *)
(* of src/unnamed/part_005 ("part_005").  Both revisions hand the file to  *)
(* the scanner through its globals yyin and yylineno.  The generated       *)
(* scanner itself, yylex(), is not in the source tree: it is modelled as   *)
(* the pull interface it is described as, reading the file yyin names.    *)
(* A file is the sequence of its tokens, each given by the number of line  *)
(* breaks in front of it; the text of token k of file f is <<f, k>>.       *)
(***************************************************************************)
\* most tokens in a file
MaxFileLen == 2

LexerRevs == {"lexer.cpp", "part_005"}
LexerIds == {1, 2}

\* the files: sequences of up to MaxFileLen tokens, each 0 or 1 lines below the last
ScannedFiles == UNION {[1..n -> {0, 1}] : n \in 0..MaxFileLen}

\* token::END is 0; any other kind is written 1
NoText == <<>>

\* a lexer that has not been constructed
NoLexer == [made |-> FALSE, f |-> 0, line |-> 0, got |-> <<>>, ended |-> FALSE]

\* yylex(): the next token of the file yyin names, counting lines in yylineno.
\* Called with yyin a null pointer the scanner reads standard input instead:
\* that is either at its end or yields text of its own.
yylex(s) ==
    IF s.yyin = 0
    THEN {[type |-> 0, text |-> NoText, yylineno |-> s.yylineno, pos |-> s.pos],
          [type |-> 1, text |-> <<0, 0>>, yylineno |-> s.yylineno, pos |-> s.pos]}
    ELSE LET f == s.yyin
             k == s.pos[f] + 1
         IN  IF k > Len(s.files[f])
             THEN {[type |-> 0, text |-> NoText, yylineno |-> s.yylineno, pos |-> s.pos]}
             ELSE {[type |-> 1, text |-> <<f, k>>,
                    yylineno |-> s.yylineno + s.files[f][k],
                    pos |-> [s.pos EXCEPT ![f] = k]]}

\* lexer::lexer(pathname), the file opened: yyin = _f; yylineno = 1
lexer_ctor(s, i) ==
    [s EXCEPT !.yyin = i,
              !.yylineno = 1,
              !.lexers[i] = [made |-> TRUE, f |-> i, line |-> 0, got |-> <<>>,
                             ended |-> FALSE]]

\* the scanner's globals after lexer::next met the end of file
GlobalsAtEOF(s, r) ==
    IF s.rev = "lexer.cpp"
    THEN [yyin |-> 0, yylineno |-> 0]
    ELSE [yyin |-> s.yyin, yylineno |-> r.yylineno]

\* lexer::next(p_tok), yylex() having returned r
lexer_next_on(s, i, r) ==
    IF r.type = 0
    THEN [s EXCEPT !.pos = r.pos,
                   !.yyin = GlobalsAtEOF(s, r).yyin,
                   !.yylineno = GlobalsAtEOF(s, r).yylineno,
                   !.lexers[i] = [@ EXCEPT !.f = 0, !.line = r.yylineno,
                                           !.ended = TRUE]]
    ELSE [s EXCEPT !.pos = r.pos,
                   !.yylineno = r.yylineno,
                   !.lexers[i] = [@ EXCEPT !.line = r.yylineno,
                                           !.got = Append(@, [text |-> r.text,
                                                              line |-> r.yylineno])]]

\* lexer L(pathname) for the i-th file
CreateLexer ==
    /\ scan.rev \in LexerRevs
    /\ \E i \in LexerIds :
          /\ ~scan.lexers[i].made
          /\ scan' = lexer_ctor(scan, i)
    /\ UNCHANGED <<parserVars, dec, dt, pool, errq>>

\* L.next(&tok) on a lexer that has not yet returned END; the tokens one
\* lexer is followed through are capped at those of both files
LexerNext ==
    /\ scan.rev \in LexerRevs
    /\ \E i \in LexerIds :
          /\ scan.lexers[i].made
          /\ ~scan.lexers[i].ended
          /\ Len(scan.lexers[i].got) < 2 * MaxFileLen
          /\ \E r \in yylex(scan) : scan' = lexer_next_on(scan, i, r)
    /\ UNCHANGED <<parserVars, dec, dt, pool, errq>>

InitLexers ==
    /\ NoParser
    /\ dec = NoDecimal
    /\ dt = NoDate
    /\ pool = NoPool
    /\ errq = NoQueue
    /\ \E r \in LexerRevs : \E f1 \in ScannedFiles : \E f2 \in ScannedFiles :
          scan = [rev |-> r, yyin |-> 0, yylineno |-> 0, files |-> <<f1, f2>>,
                  pos |-> <<0, 0>>, lexers |-> <<NoLexer, NoLexer>>]

NextLexers == CreateLexer \/ LexerNext

SpecLexers == InitLexers /\ [][NextLexers]_vars

(***************************************************************************)
(* The error queue                                                         *)
(*                                                                         *)
(* struct error and class error_queue of src/core/error_queue.hpp (the    *)
(* three enqueue overloads) and of src/src/pdx/error_queue.h (push, which  *)
(* forwards its arguments to the same constructors of error).  A message   *)
(* is the text a format and its arguments produce, written [id, len]: the  *)
(* first len characters of the text called id.  errq.given records the     *)
(* arguments of the calls made so far.                                     *)
(***************************************************************************)
\* most calls of enqueue/push followed
MaxErrors == 3

\* sizeof(error::_msg)
MSG_SIZE == 256

Priorities == {"NORMAL", "WARNING"}
ErrorLines == {1, 2}
MessageTexts == {[id |-> "m", len |-> n] : n \in {1, MSG_SIZE - 1, MSG_SIZE}}

\* snprintf(&_msg[0], size, format, args...): at most size - 1 characters and a NUL
snprintf(size, text) ==
    [text EXCEPT !.len = IF text.len < size THEN text.len ELSE size - 1]

\* error(prio, loc, format, args...)
error_ctor(prio, loc, text) ==
    [prio |-> prio, loc |-> loc, msg |-> snprintf(MSG_SIZE, text)]

\* error(loc, format, args...)
error_ctor_default(loc, text) ==
    [prio |-> "NORMAL", loc |-> loc, msg |-> snprintf(MSG_SIZE, text)]

\* _vec.emplace_back(...)
emplace_back_Front(vec, e) == <<e>> \o vec
emplace_back(vec, e) == Append(vec, e)

\* the error objects a caller can hold
Errors == {error_ctor(p, l, t) : p \in Priorities, l \in ErrorLines, t \in MessageTexts}

\* the queue after a call whose arguments were g and built the entry e
Enqueued(q, g, e) ==
    [q EXCEPT !.vec = emplace_back(q.vec, e), !.given = Append(q.given, g)]

\* q.enqueue(e); q.push(e)
EnqueueError ==
    /\ errq.live
    /\ Len(errq.given) < MaxErrors
    /\ \E e \in Errors :
          errq' = Enqueued(errq, [prio |-> e.prio, loc |-> e.loc, msg |-> e.msg], e)
    /\ UNCHANGED <<parserVars, dec, dt, pool, scan>>

\* q.enqueue(prio, loc, format, args...); q.push(prio, loc, format, args...)
EnqueuePrio ==
    /\ errq.live
    /\ Len(errq.given) < MaxErrors
    /\ \E p \in Priorities : \E l \in ErrorLines : \E t \in MessageTexts :
          errq' = Enqueued(errq, [prio |-> p, loc |-> l, msg |-> t], error_ctor(p, l, t))
    /\ UNCHANGED <<parserVars, dec, dt, pool, scan>>

\* q.enqueue(loc, format, args...); q.push(loc, format, args...)
EnqueueDefault ==
    /\ errq.live
    /\ Len(errq.given) < MaxErrors
    /\ \E l \in ErrorLines : \E t \in MessageTexts :
          errq' = Enqueued(errq, [prio |-> "none", loc |-> l, msg |-> t],
                           error_ctor_default(l, t))
    /\ UNCHANGED <<parserVars, dec, dt, pool, scan>>

\* error_queue q;
InitQueue ==
    /\ NoParser
    /\ dec = NoDecimal
    /\ dt = NoDate
    /\ pool = NoPool
    /\ scan = NoScanner
    /\ errq = [live |-> TRUE, vec |-> <<>>, given |-> <<>>]

NextQueue == EnqueueError \/ EnqueuePrio \/ EnqueueDefault

SpecQueue == InitQueue /\ [][NextQueue]_vars

(***************************************************************************)
(* Properties                                                              *)
(***************************************************************************)
\* expected values, written out
ExpStr(c) == Obj("STRING", <<c>>, 0, <<0, 0, 0>>, <<>>, 0)
ExpInt(n) == Obj("INTEGER", <<>>, n, <<0, 0, 0>>, <<>>, 0)
ExpBlock(vec, ptr) == Obj("BLOCK", <<>>, 0, <<0, 0, 0>>, vec, ptr)
ExpList(vec, ptr) == Obj("LIST", <<>>, 0, <<0, 0, 0>>, vec, ptr)

\* the statements of the root block
RootVec == stack[1].vec

\* a parse of the document as it is, not as a save game, has succeeded
Parsed(doc) == outcome = "ok" /\ ~is_save /\ script = doc

\* number of lexemes of a type among those the scanner has delivered
Count(type) == Cardinality({ i \in 1..Len(stream) : stream[i].type = type })

\* the last call of next() came from position pc and has returned a token
Returned(pc) == at.pc = pc /\ ~Skipped(tok) /\ outcome = "running"

\* C1: after `{ X` in value position with X not CLOSE, and Y the token after X,
\* the value is built by block::block exactly when X is not OPEN and Y is EQ, and
\* by list::list otherwise; `a = { b = 1 }` is a Block of one statement (b, 1),
\* `a = { 1 2 3 }` a List of three integers, `a = { { x = 1 } }` a List of one Block.
C1_BlockOrList ==
    /\ Returned("look") =>
         /\ Len(stack) = at.depth + 1
         /\ Top.kind = "block" <=> (tok1.type # "OPEN" /\ tok.type = "EQ")
         /\ Top.kind = "list" <=> (tok1.type = "OPEN" \/ tok.type # "EQ")
    /\ Parsed(DocBlock) =>
         RootVec = <<Stmt(ExpStr("a"), ExpBlock(<<Stmt(ExpStr("b"), ExpInt(1))>>, 2))>>
    /\ Parsed(DocList) =>
         RootVec = <<Stmt(ExpStr("a"), ExpList(<<ExpInt(1), ExpInt(2), ExpInt(3)>>, 2))>>
    /\ Parsed(DocListOfBlock) =>
         RootVec = <<Stmt(ExpStr("a"),
                          ExpList(<<ExpBlock(<<Stmt(ExpStr("x"), ExpInt(1))>>, 3)>>, 2))>>

\* C1 witness: a parse has ended with a List holding one Block, chosen on `{ {`
C1_Witness ==
    /\ outcome = "ok"
    /\ Len(RootVec) = 1
    /\ RootVec[1].val.type = "LIST"
    /\ Len(RootVec[1].val.vec) = 1
    /\ RootVec[1].val.vec[1].type = "BLOCK"
    /\ Len(RootVec[1].val.vec[1].vec) = 1

\* C2: on `k = { }` the enclosing block gains, at its end, the statement of key k
\* whose value is an empty Block, and the parse goes on with the next statement.
C2_EmptyBlockKept ==
    [][ (At("open") /\ tok'.type = "CLOSE") =>
          LET vec == stack'[Len(stack')].vec
              n == Len(Top.vec) + 1
          IN  /\ outcome' = "running"
              /\ Len(stack') = Len(stack)
              /\ stack'[Len(stack')].pc = "stmt"
              /\ Len(vec) = n
              /\ SubSeq(vec, 1, n - 1) = Top.vec
              /\ vec[n].key = Top.key
              /\ vec[n].val.type = "BLOCK"
              /\ vec[n].val.vec = <<>> ]_vars

\* C3: END ends the parse successfully when it is met at root level where a
\* statement could begin; met anywhere else it is the fatal UnexpectedEOF; a
\* parse that ends at END has closed every brace it opened.
C3_EndOnlyAtRoot ==
    /\ tok.type = "END" =>
         IF at.pc = "stmt" /\ at.depth = 1
         THEN outcome = "ok" /\ Len(stack) = 1 /\ stack[1].pc = "done"
         ELSE outcome = "UnexpectedEOF" /\ stack = <<>>
    /\ (tok.type = "END" /\ outcome = "ok") => Count("OPEN") = Count("CLOSE")

\* C3 witness: END met where a statement could begin, one block deep
C3_Witness ==
    tok.type = "END" /\ at.pc = "stmt" /\ at.depth = 2 /\ outcome = "UnexpectedEOF"

\* the statement or element last put in the caller's vec
Last(vec) == vec[Len(vec)]

\* C4 (as claimed): CLOSE met at root level where a statement could begin is
\* the fatal UnmatchedClosingBrace for is_save true or false; in a nested block
\* or list it ends that level without error.
C4_CloseAtRootAlwaysFatal ==
    /\ (tok.type = "CLOSE" /\ at.pc = "stmt" /\ at.depth = 1) =>
         outcome = "UnmatchedClosingBrace"
    /\ (tok.type = "CLOSE" /\ at.pc \in {"stmt", "elem"} /\ at.depth > 1) =>
         outcome = "running" /\ Len(stack) = at.depth - 1

\* C4 (amended): CLOSE met at root level where a statement could begin is the
\* fatal UnmatchedClosingBrace when is_save is false, and ends the root block
\* with a successful parse when is_save is true; in a nested block or list it
\* ends that level without error and the enclosing level goes on.
C4_CloseAtRoot ==
    /\ (tok.type = "CLOSE" /\ at.pc = "stmt" /\ at.depth = 1) =>
         IF is_save
         THEN outcome = "ok" /\ Len(stack) = 1 /\ stack[1].pc = "done"
         ELSE outcome = "UnmatchedClosingBrace" /\ stack = <<>>
    /\ (tok.type = "CLOSE" /\ at.pc \in {"stmt", "elem"} /\ at.depth > 1) =>
         /\ outcome = "running"
         /\ Len(stack) = at.depth - 1
         /\ Top.pc \in {"stmt", "elem"}
         /\ Len(Top.vec) > 0
         /\ IF Top.kind = "block" THEN Last(Top.vec).val.type \in {"BLOCK", "LIST"}
            ELSE Last(Top.vec).type = "BLOCK"

\* C4 witness: a save-game root met CLOSE where a statement could begin
C4_Witness ==
    is_save /\ tok.type = "CLOSE" /\ at.pc = "stmt" /\ at.depth = 1 /\ outcome = "ok"

\* C5: in value position DECIMAL gives a Decimal value, STR and QSTR a String,
\* DATE and QDATE a Date, INTEGER an Integer, OPEN starts a Block or List, and
\* every other token type is the fatal UnexpectedToken.
C5_ValueKinds ==
    (at.pc = "value" /\ tok.type \notin {"COMMENT", "FAIL", "END"}) =>
        IF tok.type = "OPEN" THEN outcome = "running" /\ Top.pc = "open"
        ELSE IF tok.type \in {"STR", "QSTR", "DATE", "QDATE", "INTEGER", "DECIMAL"}
        THEN /\ outcome = "running"
             /\ Len(stack) = at.depth
             /\ Top.pc = "stmt"
             /\ Len(Top.vec) > 0
             /\ Last(Top.vec).val.type =
                   (IF tok.type \in {"STR", "QSTR"} THEN "STRING"
                    ELSE IF tok.type \in {"DATE", "QDATE"} THEN "DATE"
                    ELSE tok.type)
        ELSE outcome = "UnexpectedToken"

\* the keys of all statements under an obj are of the three key types
RECURSIVE KeysOK(_)
KeysOK(o) ==
    IF o.type = "BLOCK"
    THEN \A k \in 1..Len(o.vec) :
            o.vec[k].key.type \in {"STRING", "DATE", "INTEGER"} /\ KeysOK(o.vec[k].val)
    ELSE IF o.type = "LIST" THEN \A k \in 1..Len(o.vec) : KeysOK(o.vec[k])
    ELSE TRUE

\* C6: a key is a String made from STR, a Date made from DATE or an Integer made
\* from INTEGER; any other token type in key position is the fatal
\* UnexpectedToken, and a key that is not followed by EQ is fatal.
C6_Keys ==
    /\ (at.pc = "stmt" /\ tok.type \notin {"COMMENT", "FAIL", "END", "CLOSE"}) =>
         IF tok.type = "STR"
         THEN outcome = "running" /\ Top.pc = "eq" /\ Top.key.type = "STRING"
              /\ Top.key.s = tok.text
         ELSE IF tok.type = "DATE"
         THEN outcome = "running" /\ Top.pc = "eq" /\ Top.key.type = "DATE"
         ELSE IF tok.type = "INTEGER"
         THEN outcome = "running" /\ Top.pc = "eq" /\ Top.key.type = "INTEGER"
         ELSE outcome = "UnexpectedToken" /\ stack = <<>>
    /\ (at.pc = "eq" /\ tok.type \notin {"COMMENT", "EQ"}) =>
         outcome \in {"ExpectedToken", "UnexpectedEOF", "UnrecognizedToken"} /\ stack = <<>>
    /\ (at.pc = "eq" /\ tok.type = "EQ") => outcome = "running" /\ Top.pc = "value"
    /\ \A k \in 1..Len(stack) :
         stack[k].kind = "block" => KeysOK(BlockObj(stack[k].vec, stack[k].ptr))
    /\ \A k \in 1..Len(stack) :
         stack[k].kind = "list" => KeysOK(ListObj(stack[k].vec, stack[k].ptr))

\* C6 witness: a DECIMAL token met in key position
C6_Witness ==
    at.pc = "stmt" /\ tok.type = "DECIMAL" /\ outcome = "UnexpectedToken"

\* C7: in a list STR, QSTR, INTEGER and DECIMAL each append one scalar element,
\* OPEN starts a nested Block element, CLOSE ends the list, and EQ, DATE and
\* QDATE are the fatal UnexpectedToken.
C7_ListElems ==
    [][ (At("elem") /\ tok'.type \notin {"COMMENT", "FAIL", "END"}) =>
          IF tok'.type \in {"STR", "QSTR", "INTEGER", "DECIMAL"}
          THEN /\ outcome' = "running"
               /\ Len(stack') = Len(stack)
               /\ Len(stack'[Len(stack')].vec) = Len(Top.vec) + 1
               /\ SubSeq(stack'[Len(stack')].vec, 1, Len(Top.vec)) = Top.vec
               /\ Last(stack'[Len(stack')].vec).type =
                     (IF tok'.type \in {"STR", "QSTR"} THEN "STRING" ELSE tok'.type)
          ELSE IF tok'.type = "OPEN"
          THEN outcome' = "running" /\ Len(stack') = Len(stack) + 1
               /\ stack'[Len(stack')].kind = "block"
          ELSE IF tok'.type = "CLOSE"
          THEN outcome' = "running" /\ Len(stack') = Len(stack) - 1
          ELSE outcome' = "UnexpectedToken" ]_vars

\* the root block's frame before its first statement
FreshRoot == Frame("block", TRUE, "stmt", 1)

\* C8 (as claimed): the first token of a save-game root is consumed and
\* discarded whatever its type, and statement parsing begins.
C8_HeaderAnyKind ==
    (at.pc = "header" /\ tok.type \notin {"COMMENT", "FAIL", "END"}) =>
        outcome = "running" /\ stack = <<FreshRoot>>

\* C8 (amended): the first token of a save-game root is consumed before
\* statement parsing begins; a STR is discarded and leaves nothing in the tree,
\* any other type is fatal; when is_save is false no token is discarded and the
\* first token is the first statement's key.
C8_HeaderStr ==
    /\ at.pc = "header" => is_save /\ at.depth = 1
    /\ (at.pc = "header" /\ tok.type = "STR") =>
         outcome = "running" /\ stack = <<FreshRoot>> /\ state = "NORMAL"
    /\ (at.pc = "header" /\ tok.type \notin {"STR", "COMMENT"}) =>
         /\ stack = <<>>
         /\ outcome = (IF tok.type = "END" THEN "UnexpectedEOF"
                       ELSE IF tok.type = "FAIL" THEN "UnrecognizedToken"
                       ELSE "ExpectedToken")
    /\ (is_save /\ outcome = "running" /\ stream = <<>>) => Top.pc = "header"
    /\ (~is_save /\ outcome = "running" /\ Len(stream) = 1 /\ stream[1].type = "STR") =>
         Top.pc = "eq" /\ Top.key.type = "STRING" /\ Top.key.s = stream[1].text

\* C8 witness: a save game whose header was discarded has parsed to a statement
C8_Witness ==
    /\ is_save
    /\ outcome = "ok"
    /\ Len(stream) > 3
    /\ stream[1].type = "STR"
    /\ Len(RootVec) = 1
    /\ RootVec[1].key.type = "STRING"
    /\ RootVec[1].key.s = stream[2].text

\* C9: FAIL is the fatal UnrecognizedToken wherever next() meets it, and no
\* parse that met FAIL has a tree.
C9_FailFatal ==
    /\ tok.type = "FAIL" => outcome = "UnrecognizedToken" /\ stack = <<>>
    /\ outcome \in {"running", "ok"} => Count("FAIL") = 0

\* C9 witness: FAIL met as the second lookahead token
C9_Witness ==
    tok.type = "FAIL" /\ at.pc = "look" /\ outcome = "UnrecognizedToken"

\* the keys under an obj, in document order
RECURSIVE ObjKeys(_)
RECURSIVE VecKeys(_, _, _)
VecKeys(vec, k, block) ==
    IF k > Len(vec) THEN <<>>
    ELSE (IF block THEN <<vec[k].key>> \o ObjKeys(vec[k].val) ELSE ObjKeys(vec[k]))
         \o VecKeys(vec, k + 1, block)
ObjKeys(o) ==
    IF o.type = "BLOCK" THEN VecKeys(o.vec, 1, TRUE)
    ELSE IF o.type = "LIST" THEN VecKeys(o.vec, 1, FALSE)
    ELSE <<>>

\* the lexemes delivered that are no comments
RECURSIVE NoComments(_)
NoComments(q) ==
    IF q = <<>> THEN <<>>
    ELSE IF q[1].type = "COMMENT" THEN NoComments(Tail(q))
    ELSE <<q[1]>> \o NoComments(Tail(q))

\* the keys of the document: the tokens followed by EQ, in order
RECURSIVE StreamKeys(_)
StreamKeys(q) ==
    IF Len(q) < 2 THEN <<>>
    ELSE IF q[2].type = "EQ" THEN <<ScalarObj(lexer_next(q[1]))>> \o StreamKeys(Tail(q))
    ELSE StreamKeys(Tail(q))

\* C10: after a successful parse the statements of the tree are the statements
\* of the document, in the document's order, two statements of the same key
\* both present: `a=1 a=2` gives (a,1) then (a,2).
C10_OrderKept ==
    /\ outcome = "ok" =>
         ObjKeys(BlockObj(RootVec, 1)) = StreamKeys(NoComments(stream))
    /\ Parsed(DocDup) =>
         RootVec = <<Stmt(ExpStr("a"), ExpInt(1)), Stmt(ExpStr("a"), ExpInt(2))>>

(***************************************************************************)
(* Properties of the decimal decoder                                       *)
(***************************************************************************)
\* the parts of a decimal text: sign, digits before '.', digits after '.'
IsNegative(t) == Len(t) > 0 /\ t[1] = "-"
Unsigned(t) == IF IsNegative(t) THEN Tail(t) ELSE t
RadixAt(t) == IF \E k \in 1..Len(t) : t[k] = "." THEN CHOOSE k \in 1..Len(t) : t[k] = "." ELSE Len(t) + 1
IntPart(t) == SubSeq(Unsigned(t), 1, RadixAt(Unsigned(t)) - 1)
FracPart(t) == SubSeq(Unsigned(t), RadixAt(Unsigned(t)) + 1, Len(Unsigned(t)))

\* the number a digit string denotes, read left to right
RECURSIVE DigitsValue(_)
DigitsValue(ds) ==
    IF ds = <<>> THEN 0
    ELSE 10 * DigitsValue(SubSeq(ds, 1, Len(ds) - 1)) + DigitVal(ds[Len(ds)])

\* the first D digits of ds, zeros appended when there are fewer
FirstDigits(ds, D) == [k \in 1..D |-> IF k <= Len(ds) THEN ds[k] ELSE "0"]

\* the value of a decimal text in units of 10^-D, digits past the D-th dropped
Denotes(t, D) ==
    (IF IsNegative(t) THEN -1 ELSE 1)
      * (DigitsValue(IntPart(t)) * exp10(D) + DigitsValue(FirstDigits(FracPart(t), D)))

\* the largest integral part a mantissa of D fractional digits can carry
IntegralBound(D) == (INT32_MAX - exp10(D)) \div exp10(D)

\* the decoder has been run on its literal
Decoded == dec.pc \in {"built", "thrown", "printed"}

TextTruncating == <<"1", "2", "3", ".", "1", "2", "3", "4", "5">>
TextPadded == <<"1", "2", "3", "4", "5", ".", "1">>
TextNegative == <<"-", "1", ".", "5">>

\* C11: a literal whose integral part exceeds the representable integral bound
\* puts one Normal-severity diagnostic on the error queue and raises no fatal
\* error: the decoder returns.
C11_OverflowIsQueued ==
    (Decoded /\ DigitsValue(IntPart(dec.src)) > IntegralBound(dec.D)) =>
        /\ dec.pc # "thrown"
        /\ Len(dec.errors) = 1
        /\ dec.errors[1].prio = "NORMAL"

\* C12: a literal with more than D fractional digits puts exactly one
\* Warning-severity diagnostic on the error queue and the truncated value is
\* returned; a literal with at most D fractional digits queues none
\* (D = 3: "123.12345" gives one Warning and mantissa 123123).
C12_TruncationWarns ==
    dec.pc \in {"built", "printed"} =>
        /\ IF Len(FracPart(dec.src)) > dec.D
           THEN /\ Len(dec.errors) = 1
                /\ dec.errors[1].prio = "WARNING"
                /\ dec.m = Denotes(dec.src, dec.D)
           ELSE dec.errors = <<>>
        /\ (dec.src = TextTruncating /\ dec.D = 3) => dec.m = 123123

\* C13: a literal whose integral part is within bounds is decoded to the
\* mantissa sign * (integral * 10^D + fractional), fractional being the first D
\* fractional digits, zeros appended when fewer, digits past the D-th dropped
\* (D = 3: "12345.1" gives 12345100, "123.12345" 123123, "-1.5" -1500).
C13_Mantissa ==
    /\ (Decoded /\ DigitsValue(IntPart(dec.src)) <= IntegralBound(dec.D)) =>
          /\ dec.pc # "thrown"
          /\ dec.m = Denotes(dec.src, dec.D)
    /\ (Decoded /\ dec.D = 3) =>
          /\ dec.src = TextPadded => dec.m = 12345100
          /\ dec.src = TextTruncating => dec.m = 123123
          /\ dec.src = TextNegative => dec.m = -1500

\* C13 witness: "123.12345" has been decoded with D = 3, two digits dropped
C13_Witness ==
    /\ dec.pc = "built"
    /\ dec.D = 3
    /\ dec.src = TextTruncating
    /\ dec.m = 123123

\* C14: a literal with integral part within bounds and at most D fractional
\* digits, printed after decoding, gives a text of the same numeric value: the
\* integral part, then '.' and D fractional digits, the fractional part left
\* out when it is zero.
C14_PrintDenotesSame ==
    (dec.pc = "printed" /\ Len(FracPart(dec.src)) <= dec.D) =>
        /\ Denotes(dec.out, dec.D) = Denotes(dec.src, dec.D)
        /\ Len(FracPart(dec.out)) \in {0, dec.D}
        /\ (RadixAt(dec.out) <= Len(dec.out)) <=> (DigitsValue(FirstDigits(FracPart(dec.src), dec.D)) # 0)

\* a digit string without its leading zeros
RECURSIVE StripZeros(_)
StripZeros(ds) == IF Len(ds) > 1 /\ ds[1] = "0" THEN StripZeros(Tail(ds)) ELSE ds

\* the integral part of a text exceeds the integral bound for scale 10^D (a
\* part of ten digits and more, leading zeros aside, exceeds every bound)
ExceedsBound(t, D) ==
    LET ds == StripZeros(IntPart(t)) IN
    Len(ds) > 9 \/ DigitsValue(ds) > IntegralBound(D)

TextTwoTo32 == <<"4", "2", "9", "4", "9", "6", "7", "2", "9", "6", ".", "0">>

\* C25: every literal whose integral part exceeds the integral bound, however
\* many digits it has, is answered with the range error; no mantissa is
\* returned that was computed from a wrapped value ("4294967296.0" is not
\* accepted as 0)
C25_WideRangeError ==
    /\ (Decoded /\ ExceedsBound(dec.src, dec.D)) => dec.pc = "thrown"
    /\ (Decoded /\ dec.src = TextTwoTo32) => ~(dec.pc \in {"built", "printed"} /\ dec.m = 0)

(***************************************************************************)
(* Properties of the date type                                             *)
(***************************************************************************)
\* the '.'-separated fields of a text, empty fields included
RECURSIVE DotFields(_)
DotFields(t) ==
    IF \E k \in 1..Len(t) : t[k] = "."
    THEN LET k == CHOOSE k \in 1..Len(t) : t[k] = "." /\ \A j \in 1..(k - 1) : t[j] # "."
         IN  <<SubSeq(t, 1, k - 1)>> \o DotFields(SubSeq(t, k + 1, Len(t)))
    ELSE <<t>>

\* the numbers written in the fields of a text
FieldValues(t) == [k \in 1..Len(DotFields(t)) |-> DigitsValue(DotFields(t)[k])]

\* the strict lexicographic order over (year, month, day)
LexLess(a, b) ==
    \/ a[1] < b[1]
    \/ a[1] = b[1] /\ a[2] < b[2]
    \/ a[1] = b[1] /\ a[2] = b[2] /\ a[3] < b[3]

\* the largest values of the fields year, month, day
FieldLimit == <<65535, 255, 255>>
FieldName == <<"year", "month", "day">>

\* C15: a < b holds exactly when a.year < b.year, or the years are equal and
\* a.month < b.month, or years and months are equal and a.day < b.day.
C15_LessIsLexicographic ==
    dt.pc = "compared" => (dt.lt <=> LexLess(dt.a, dt.b))

\* C16: a text Y.M.D of three non-negative decimal fields decodes to the date
\* (Y, M, D) exactly when Y <= 65535, M <= 255 and D <= 255; otherwise the
\* decoder fails with the out-of-range error naming the first field out of
\* range, in the order year, month, day, with that field's value; no date with
\* wrapped or truncated fields is produced.
C16_FieldsInRangeOrError ==
    (dt.pc = "decoded" /\ Len(DotFields(dt.src)) = 3) =>
        LET v == FieldValues(dt.src)
            out == { k \in 1..3 : v[k] > FieldLimit[k] }
        IN  IF out = {}
            THEN dt.res.kind = "date" /\ dt.res.d = <<v[1], v[2], v[3]>>
            ELSE LET k == CHOOSE k \in out : \A j \in out : k <= j
                 IN  /\ dt.res.kind = "bounds"
                     /\ dt.res.field = FieldName[k]
                     /\ dt.res.val = v[k]

\* C17: a text whose number of '.'-separated fields is not exactly 3 makes the
\* decoder fail with the malformed-date error; no date is returned and nothing
\* outside the text is read or written.
C17_FieldCountChecked ==
    (dt.pc = "decoded" /\ Len(DotFields(dt.src)) # 3) => dt.res.kind = "malformed"

\* C29: operator< is a strict weak ordering: no date is less than itself,
\* a < b excludes b < a, a < b and b < c give a < c, and two dates that
\* differ only in the day are ordered one way or the other
C29_StrictWeakOrder ==
    dt.pc = "compared" =>
        /\ dt.a = dt.b => ~dt.lt
        /\ ~(dt.lt /\ dt.gt)
        /\ \A c \in DateOperands(dt.impl) :
              (dt.lt /\ date_less(dt.b, c)) => date_less(dt.a, c)
        /\ (dt.a[1] = dt.b[1] /\ dt.a[2] = dt.b[2] /\ dt.a[3] # dt.b[3]) => (dt.lt \/ dt.gt)

\* C30: a == b exactly when year, month and day are equal; a == a for every
\* date; a == b exactly when neither a < b nor b < a
C30_EqualityFieldwise ==
    dt.pc = "compared" =>
        /\ dt.eq <=> (dt.a[1] = dt.b[1] /\ dt.a[2] = dt.b[2] /\ dt.a[3] = dt.b[3])
        /\ dt.a = dt.b => dt.eq
        /\ dt.eq <=> (~dt.lt /\ ~dt.gt)

(***************************************************************************)
(* Properties of the string arena                                          *)
(***************************************************************************)
\* the bytes an allocation occupies: its characters and its '\0'
Region(h) == h.off..(h.off + Len(h.text))

\* the text of the given length among the pool's texts, written with c
Filled(n, c) == [k \in 1..n |-> c]

\* C18: a call of copy_c_str fails (throws) exactly when the text is longer
\* than MAX_STRLEN = C - 1; every text of length 0..C-1 is interned, whatever
\* the state of the arena; a failed call leaves chunks, offset and the strings
\* handed out as they were.
C18_TooLongExactly ==
    [][ pool'.calls = pool.calls + 1 =>
          /\ (pool'.last = "thrown") <=> (Len(pool'.arg) > MAX_STRLEN)
          /\ pool'.last = "thrown" =>
                /\ pool'.chunks = pool.chunks
                /\ pool'.end = pool.end
                /\ pool'.handed = pool.handed
          /\ Len(pool'.arg) <= MAX_STRLEN =>
                /\ pool'.last = "ok"
                /\ Len(pool'.handed) = Len(pool.handed) + 1
                /\ pool'.handed[Len(pool'.handed)].text = pool'.arg ]_vars

\* C18 witness: texts of length 0 and of length C-1 have been interned and a
\* call with a text of length C has then failed
C18_Witness ==
    /\ pool.last = "thrown"
    /\ Len(pool.arg) = MAX_STRLEN + 1
    /\ \E i, j \in 1..Len(pool.handed) :
          /\ Len(pool.handed[i].text) = 0
          /\ Len(pool.handed[j].text) = MAX_STRLEN

\* C19: every string handed out so far reads back as the text it was interned
\* with; each allocation is a region of len+1 bytes inside one chunk, the
\* regions of two allocations never overlap (equal contents included), and the
\* first allocation of a fresh arena lies at the start of a chunk pushed for it.
C19_StableAllocations ==
    /\ pool.last \notin {"no_chunk", "overrun"}
    /\ \A i \in 1..Len(pool.handed) :
          LET h == pool.handed[i] IN
          /\ h.chunk \in 1..Len(pool.chunks)
          /\ Region(h) \subseteq 0..(MAX_SZ - 1)
          /\ c_str(pool.chunks[h.chunk], h.off) = h.text
    /\ \A i, j \in 1..Len(pool.handed) :
          (i # j /\ pool.handed[i].chunk = pool.handed[j].chunk) =>
              Region(pool.handed[i]) \cap Region(pool.handed[j]) = {}
    /\ Len(pool.handed) > 0 => (pool.handed[1].chunk = 1 /\ pool.handed[1].off = 0)

\* C19 witness: "a" was interned in the first chunk, a later intern rolled
\* over to a second chunk, "a" was interned again there, and the first "a"
\* still reads back
C19_Witness ==
    /\ Len(pool.chunks) = 2
    /\ \E i, j \in 1..Len(pool.handed) :
          /\ pool.handed[i].text = Filled(1, "a")
          /\ pool.handed[j].text = Filled(1, "a")
          /\ pool.handed[i].chunk = 1
          /\ pool.handed[j].chunk = 2
          /\ c_str(pool.chunks[1], pool.handed[i].off) = Filled(1, "a")

\* the bytes left in the head chunk; none when the arena has no chunk yet
Remaining(p) == IF p.chunks = <<>> THEN 0 ELSE MAX_SZ - p.end

\* C26: a text is placed in the head chunk, at its offset, whenever the
\* chunk has at least len+1 bytes left, and at the start of a newly pushed
\* chunk exactly when it has fewer; a text that exactly fills the rest of
\* the chunk stays in it
C26_FillsBeforeRollover ==
    [][ (pool'.calls = pool.calls + 1 /\ pool'.last = "ok") =>
          LET len == Len(pool'.arg)
              h == pool'.handed[Len(pool'.handed)]
          IN  IF Remaining(pool) >= len + 1
              THEN /\ Len(pool'.chunks) = Len(pool.chunks)
                   /\ h.chunk = Len(pool.chunks)
                   /\ h.off = pool.end
              ELSE /\ Len(pool'.chunks) = Len(pool.chunks) + 1
                   /\ h.chunk = Len(pool'.chunks)
                   /\ h.off = 0 ]_vars

(***************************************************************************)
(* Properties of the tree's ownership                                      *)
(***************************************************************************)
\* the addresses of the Block and List nodes of a value, the value's own first
RECURSIVE NodePtrs(_)
RECURSIVE VecPtrs(_, _)
VecPtrs(vec, k) ==
    IF k > Len(vec) THEN <<>>
    ELSE (IF "val" \in DOMAIN vec[k] THEN NodePtrs(vec[k].val) ELSE NodePtrs(vec[k]))
         \o VecPtrs(vec, k + 1)
NodePtrs(o) ==
    IF o.type \in {"BLOCK", "LIST"} THEN <<o.ptr>> \o VecPtrs(o.vec, 1)
    ELSE <<>>

\* C20: in the tree of a successful parse every Block and List node, the Block
\* of an empty `{ }` included, is the value of one statement or list element
\* only: no node occurs twice in the tree, nor below itself.
C20_SingleOwner ==
    outcome = "ok" =>
        LET ps == NodePtrs(BlockObj(RootVec, 1)) IN
        \A i, j \in 1..Len(ps) : i # j => ps[i] # ps[j]

(***************************************************************************)
(* Properties of parser instances                                          *)
(***************************************************************************)
\* what a lexer run alone on file f returns: each token with its line
RECURSIVE AloneFrom(_, _, _, _)
AloneFrom(f, file, k, line) ==
    IF k > Len(file) THEN <<>>
    ELSE <<[text |-> <<f, k>>, line |-> line + file[k]]>>
         \o AloneFrom(f, file, k + 1, line + file[k])

Alone(f) == AloneFrom(f, scan.files[f], 1, 1)

IsPrefix(s, t) == Len(s) <= Len(t) /\ s = SubSeq(t, 1, Len(s))

\* C21: two instances, each made on its own file and stepped in any order,
\* each get the tokens and line numbers they get when run alone, to the end
C21_InstancesIndependent ==
    \A i \in LexerIds :
        scan.lexers[i].made =>
            /\ IsPrefix(scan.lexers[i].got, Alone(i))
            /\ scan.lexers[i].ended => scan.lexers[i].got = Alone(i)

(***************************************************************************)
(* Properties of the error queue                                           *)
(***************************************************************************)
\* the severity an entry is to have: the one given, Normal when none was
GivenPrio(g) == IF g.prio = "none" THEN "NORMAL" ELSE g.prio

\* the first n characters of a message
FirstChars(text, n) == [text EXCEPT !.len = IF text.len <= n THEN text.len ELSE n]

\* C22 as stated: after any calls, size() is the number of calls and the
\* entries are, in call order, the severity (Normal when none was given),
\* location and message as given
C22_AppendOnlyAsGiven ==
    /\ Len(errq.vec) = Len(errq.given)
    /\ \A k \in 1..Len(errq.vec) :
          /\ errq.vec[k].prio = GivenPrio(errq.given[k])
          /\ errq.vec[k].loc = errq.given[k].loc
          /\ errq.vec[k].msg = errq.given[k].msg

\* C22 amended: ... and the message as given, cut to its first 255 characters
C22_AppendOnlyInOrder ==
    /\ Len(errq.vec) = Len(errq.given)
    /\ \A k \in 1..Len(errq.vec) :
          /\ errq.vec[k].prio = GivenPrio(errq.given[k])
          /\ errq.vec[k].loc = errq.given[k].loc
          /\ errq.vec[k].msg = FirstChars(errq.given[k].msg, MSG_SIZE - 1)

\* three calls made, the second without a severity, the entries all different
C22_Witness ==
    /\ Len(errq.vec) = 3
    /\ errq.given[1].prio = "WARNING"
    /\ errq.given[2].prio = "none"
    /\ errq.given[3].msg.len = MSG_SIZE
    /\ errq.vec[1] # errq.vec[2]
    /\ errq.vec[2] # errq.vec[3]
    /\ errq.vec[1] # errq.vec[3]

(***************************************************************************)
(* Properties of the lookahead                                             *)
(***************************************************************************)
\* the token just returned was copied into a saved token by save_and_lookahead
JustSaved ==
    /\ at.pc \in {"open", "look"}
    /\ outcome \in {"running", "BufferOverflow"}
    /\ ~Skipped(tok)
    /\ ~(at.pc = "open" /\ tok.type = "CLOSE")

\* C28: save_and_lookahead never writes past the end of a saved token's
\* buffer: every text it copies fits with its terminator, and it never
\* copies from the null text of an END token
C28_CopyFitsBuffer ==
    /\ outcome # "BufferOverflow"
    /\ Fits(tok1.text)
    /\ Fits(tok2.text)
    /\ JustSaved => Fits(tok.text) /\ tok.type # "END"

\* the tokens lexer::next made of the scanner's lexemes, the comments left out
RECURSIVE NonCommentToks(_)
NonCommentToks(lxs) ==
    IF lxs = <<>> THEN <<>>
    ELSE IF lxs[1].type = "COMMENT" THEN NonCommentToks(Tail(lxs))
    ELSE <<lexer_next(lxs[1])>> \o NonCommentToks(Tail(lxs))

\* one call of next(): a saved token comes back as the scanner gave it and
\* nothing is taken from the scanner; otherwise the scanner's next token is
ReplayStep ==
    LET nc == NonCommentToks(stream) IN
    /\ state = "TOK1" => /\ Len(nc) >= 2
                         /\ tok' = nc[Len(nc) - 1]
                         /\ outcome' = "running" => stream' = stream
    /\ state = "TOK2" => /\ Len(nc) >= 1
                         /\ tok' = nc[Len(nc)]
                         /\ outcome' = "running" => stream' = stream
    /\ (state = "NORMAL" /\ Running) =>
           \E lx \in ScannerNext :
              /\ tok' = lexer_next(lx)
              /\ outcome' \in {"running", "ok"} => stream' = Append(stream, lx)

\* C23: replay is exact: after save_and_lookahead saved X and fetched Y, the
\* next two calls of next() return X then Y, kind and text as the scanner
\* gave them, taking nothing from the scanner; every other call returns a
\* fresh token of the scanner, so no token is lost, doubled or reordered
C23_ReplayExact == [][ReplayStep]_vars

\* one iteration of next(): a COMMENT comes from the scanner, never from a
\* saved token, and is kept from the caller, whose frames, tree, saved
\* tokens and replay state stay as they were; no saved token is a COMMENT;
\* `a = { # b # = 1 }` parses to the tree of `a = { b = 1 }`
CommentStep ==
    /\ tok1'.type # "COMMENT"
    /\ tok2'.type # "COMMENT"
    /\ tok'.type = "COMMENT" =>
          /\ state = "NORMAL"
          /\ state' = "NORMAL"
          /\ stack' = stack
          /\ nalloc' = nalloc
          /\ outcome' = outcome
          /\ tok1' = tok1
          /\ tok2' = tok2
    /\ (outcome' = "ok" /\ ~is_save /\ script = DocCommented) =>
          stack'[1].vec = <<Stmt(ExpStr("a"), ExpBlock(<<Stmt(ExpStr("b"), ExpInt(1))>>, 2))>>

\* C24: comments are skipped wherever a token is requested: none is returned
\* to a caller, none changes the tree or the choice of Block or List, and
\* neither saved lookahead token is ever a COMMENT
C24_CommentsSkipped == [][CommentStep]_vars

\* C24 witness: a comment between the two lookahead tokens has been skipped
\* and the parse has gone on to choose the Block and finish
C24_Witness ==
    /\ Parsed(DocCommented)
    /\ Len(RootVec) = 1
    /\ RootVec[1].val.type = "BLOCK"
    /\ stream[6].type = "COMMENT"

\* one call of next() or of save_and_lookahead: save_and_lookahead is entered
\* in NORMAL only, it alone sets TOK1, and from TOK1 the next two calls of
\* next() lead through TOK2 to NORMAL with both saved tokens left alone
PushbackStep ==
    /\ At("look") => state = "NORMAL"
    /\ state' = "TOK1" => At("look") /\ state = "NORMAL"
    /\ state = "TOK1" =>
          (outcome' = "running" => state' = "TOK2" /\ tok1' = tok1 /\ tok2' = tok2)
    /\ state = "TOK2" =>
          (outcome' = "running" => state' = "NORMAL" /\ tok1' = tok1 /\ tok2' = tok2)
    /\ state' \in {"NORMAL", "TOK1", "TOK2"}

\* C27: in every reachable state, at any nesting of blocks and lists,
\* save_and_lookahead is entered only in state NORMAL, and after it the
\* state goes TOK1 -> TOK2 -> NORMAL in exactly two calls of next(), so that
\* tok1 and tok2 are not overwritten before both were replayed
C27_TwoTokenPushback == [][PushbackStep]_vars

\* C27 witness: in `a = { b = { 1 } a = 2 }` the list inside the block has
\* been handed both saved tokens of its lookahead, the second one closing
\* it, and the state is NORMAL again
C27_Witness ==
    /\ script = DocNested
    /\ outcome = "running"
    /\ at = [pc |-> "elem", depth |-> 3]
    /\ Len(stack) = 2
    /\ state = "NORMAL"
    /\ tok = tok2
    /\ tok1 = Tok("INTEGER", <<"1">>)
    /\ tok2 = Tok("CLOSE", <<"}">>)

====
